---- MODULE Spec2Model ----
(***************************************************************************)
(* tarbgz: random access to members of a TAR archive compressed with BGZF. *)
(*                                                                         *)
(* The module models src/tarbgz.py:                                        *)
(*   - Index / IndexNode / IndexEntry : the hierarchical index tree,       *)
(*   - BgzfWrapper                    : the forward-only seek adapter,     *)
(*   - main (--index / --extract)     : the index build and the extractor. *)
(*                                                                         *)
(* Strings are sequences of one-character strings, so that path splitting  *)
(* (os.path.split, Index.atomize_path) is computed and not assumed.        *)
(***************************************************************************)
EXTENDS Integers, Sequences, FiniteSets, TLC

\* ------------------------------------------------------------------------
\* Bounds of the model
\* ------------------------------------------------------------------------

\* Longest path string handed to insert / get / readdir.
MaxPathLen == 3

\* Number of insert calls of one index-tree run.
MaxInserts == 2

\* Depth at which the interpreter gives up a recursion ("maximum recursion
\* depth exceeded"); larger than any terminating atomize_path recursion on
\* a path of at most MaxPathLen characters.
RecursionLimit == 6

\* Most compressed blocks of an archive, and most decompressed bytes of one.
MaxBlocks == 2
MaxBlockLen == 3

\* Largest initial_offset handed to a BgzfWrapper made on its own.
MaxInitialOffset == 1

\* Largest size handed to BgzfWrapper.read.
MaxRead == 2

\* Most members of an archive, and the largest payload size of one.
MaxMembers == 2
MaxSize == 1

\* Most bytes missing at the end of a truncated archive.
MaxCut == 1

\* The archive format's block size (tarfile.BLOCKSIZE, 512), scaled down:
\* headers take one block, payloads are padded to whole blocks.
TarBlock == 2

\* Most compressed blocks of an archive.
MaxArchiveBlocks == 3

\* ------------------------------------------------------------------------
\* Paths and os.path.split
\* ------------------------------------------------------------------------

Slash == "/"

\* Characters of path strings: the separator and one ordinary character
\* (component names are "a", "aa", "aaa", ...).
Chars == {Slash, "a"}

\* Every path string of at most MaxPathLen characters.
Paths == UNION {[1..n -> Chars] : n \in 0..MaxPathLen}

\* str.rfind('/') + 1: the 1-based index of the last slash, 0 when none.
RFindSlash(p) ==
    LET idx == {i \in 1..Len(p) : p[i] = Slash}
    IN IF idx = {} THEN 0 ELSE CHOOSE i \in idx : \A j \in idx : j <= i

\* head == '/' * len(head)
AllSlashes(s) == \A i \in 1..Len(s) : s[i] = Slash

\* str.rstrip('/')
RStripSlash(s) ==
    LET keep == {i \in 1..Len(s) : s[i] # Slash}
    IN IF keep = {} THEN <<>>
       ELSE SubSeq(s, 1, CHOOSE i \in keep : \A j \in keep : j <= i)

\* os.path.split (posixpath): everything up to the last slash, and what
\* follows it; trailing slashes are stripped from the head unless the head
\* is made of slashes only.
PathSplit(p) ==
    LET i == RFindSlash(p)
        head == SubSeq(p, 1, i)
        tail == SubSeq(p, i + 1, Len(p))
    IN [head |-> IF head # <<>> /\ ~AllSlashes(head) THEN RStripSlash(head) ELSE head,
        tail |-> tail]

\* Outcome of a call that may raise.
Ok(v) == [status |-> "ok", value |-> v]
Raised(e) == [status |-> e, value |-> <<>>]

\* The interpreter's "maximum recursion depth exceeded" RuntimeError.
RecursionError == "RecursionError"
\* readdir's RuntimeError("<part> not found").
NotFound == "NotFound"

\* Index.atomize_path at recursion depth `depth`.
RECURSIVE atomize_rec(_, _)
atomize_rec(path, depth) ==
    IF depth > RecursionLimit THEN Raised(RecursionError)
    ELSE
        LET ht == PathSplit(path)
            rec == IF ht.head # <<>> THEN atomize_rec(ht.head, depth + 1) ELSE Ok(<<>>)
        IN IF rec.status # "ok" THEN rec
           ELSE IF ht.tail # <<>> THEN Ok(Append(rec.value, ht.tail))
           ELSE rec

\* Index.atomize_path(path): the list of path components, or the error the
\* recursion ends with.
atomize_path(path) == atomize_rec(path, 1)

\* ------------------------------------------------------------------------
\* IndexEntry, IndexNode
\* ------------------------------------------------------------------------

\* Python's None.
None == [kind |-> "None"]

\* IndexEntry.__init__
IndexEntry(virtual_offset, real_offset, size, next_virtual_offset) ==
    [kind |-> "IndexEntry",
     virtual_offset |-> virtual_offset,
     real_offset |-> real_offset,
     size |-> size,
     next_virtual_offset |-> next_virtual_offset]

\* An empty dict.
EmptyDict == [n \in {} |-> None]

\* IndexNode.__init__ with the given children and entry.
IndexNode(children, entry) == [children |-> children, entry |-> entry]

\* IndexNode() with the defaults: no children, no entry.
NewIndexNode == IndexNode(EmptyDict, None)

\* IndexNode.has_child
has_child(node, name) == name \in DOMAIN node.children

\* Mutant of make_child: the new child drops its siblings.
make_child_dropping(node, name) ==
    [node EXCEPT !.children = [n \in {name} |-> NewIndexNode]]

\* IndexNode.make_child: self.children[name] = IndexNode()
make_child(node, name) ==
    [node EXCEPT !.children =
        [n \in DOMAIN node.children \cup {name} |->
            IF n = name THEN NewIndexNode ELSE node.children[n]]]

\* IndexNode.get_child
get_child(node, name) == node.children[name]

\* IndexNode.get_children: the child names (an iterator over the dict keys).
get_children(node) == DOMAIN node.children

\* Mutant of set_entry: an entry already present is kept.
set_entry_keeping(node, entry) ==
    IF node.entry = None THEN [node EXCEPT !.entry = entry] ELSE node

\* directory.entry = entry
set_entry(node, entry) == [node EXCEPT !.entry = entry]

\* ------------------------------------------------------------------------
\* Index
\* ------------------------------------------------------------------------

\* Index.__init__ with no root given.
NewIndex == NewIndexNode

\* Mutant of ensure_child: the child is made anew in any case.
ensure_child_remaking(directory, part) == make_child(directory, part)

\* if not directory.has_child(part): directory.make_child(part)
ensure_child(directory, part) ==
    IF ~has_child(directory, part) THEN make_child(directory, part) ELSE directory

\* The loop of Index.insert below `directory`, and the final assignment.
RECURSIVE insert_walk(_, _, _)
insert_walk(directory, parts, entry) ==
    IF parts = <<>> THEN set_entry(directory, entry)
    ELSE
        LET part == Head(parts)
            made == ensure_child(directory, part)
        IN [made EXCEPT !.children[part] =
                insert_walk(get_child(made, part), Tail(parts), entry)]

\* Index.insert(path, entry): the new root, or the error raised (by
\* atomize_path, before the tree is touched).
insert(root, path, entry) ==
    LET parts == atomize_path(path)
    IN IF parts.status # "ok" THEN parts
       ELSE Ok(insert_walk(root, parts.value, entry))

\* The loop of Index.readdir.
RECURSIVE readdir_walk(_, _)
readdir_walk(directory, parts) ==
    IF parts = <<>> THEN Ok(get_children(directory))
    ELSE IF ~has_child(directory, Head(parts)) THEN Raised(NotFound)
    ELSE readdir_walk(get_child(directory, Head(parts)), Tail(parts))

\* Index.readdir(path)
readdir(root, path) ==
    LET parts == atomize_path(path)
    IN IF parts.status # "ok" THEN parts
       ELSE readdir_walk(root, parts.value)

\* The loop of Index.get.
RECURSIVE get_walk(_, _)
get_walk(directory, parts) ==
    IF parts = <<>> THEN Ok(directory.entry)
    ELSE IF ~has_child(directory, Head(parts)) THEN Ok(None)
    ELSE get_walk(get_child(directory, Head(parts)), Tail(parts))

\* Index.get(path)
get(root, path) ==
    LET parts == atomize_path(path)
    IN IF parts.status # "ok" THEN parts
       ELSE get_walk(root, parts.value)

\* Mutant of lookup_tree: the nodes missing on the way are made, as insert
\* makes them.
lookup_tree_vivifying(root, path) ==
    IF atomize_path(path).status # "ok" THEN root
    ELSE insert_walk(root, atomize_path(path).value, get(root, path).value)

\* The tree after Index.get(path) or Index.readdir(path): neither assigns
\* to a node or to a dict of children.
lookup_tree(root, path) == root

\* ------------------------------------------------------------------------
\* State
\* ------------------------------------------------------------------------

VARIABLES
    index,      \* the Index: its root IndexNode
    inserted,   \* history: the completed insert calls, <<path, entry>>, in order
    call,       \* the last call made on the index: [op, path, ret]
    blocks,     \* the archive file: the decompressed length of each BGZF block
    shortReads, \* whether the reader may return fewer bytes than asked for
                \* before the end of the stream
    reader,     \* the BgzfReader: [block, within] (loaded block, offset in it)
    offset,     \* BgzfWrapper.offset
    initial_offset, \* history: the initial_offset the wrapper was made with
    produced,   \* history: bytes the reader produced since the wrapper was made
    acall,      \* the last call made on the wrapper, and the state before it
    archive,    \* the archive: [members, trailer, cut]
    pc,         \* where main --index is: "start", "loop", "saved", "failed"
    tar,        \* archive_tar: [offset, firstmember, loaded]
    bgzf_offset,\* main --index: coordinate of the next TAR record
    tar_offset, \* main --index: decompressed offset of the next TAR record
    entries,    \* history: the IndexEntry objects made by the build, in order
    parsed,     \* history: the TarInfo objects the loop got, in order
    previous,   \* history: the outcome of an earlier run of main --index
    index_file, \* the index file: the pickled Index, NoFile when not written
    error,      \* the exception that ended main --index, "none" when none did
    xcall       \* the last run of main --extract: its path and its outcome

treeVars == <<index, inserted, call>>

adapterVars == <<blocks, shortReads, reader, offset, initial_offset, produced, acall>>

buildVars == <<archive, pc, tar, bgzf_offset, tar_offset, entries, parsed, previous,
               index_file,
               error, xcall>>

vars == <<index, inserted, call,
          blocks, shortReads, reader, offset, initial_offset, produced, acall,
          archive, pc, tar, bgzf_offset, tar_offset, entries, parsed, previous,
          index_file,
          error, xcall>>

NoCall == [op |-> "none", path |-> <<>>, ret |-> Ok(None)]

\* ------------------------------------------------------------------------
\* The block-decompression reader (Bio.bgzf.BgzfReader) over `blocks`
\* ------------------------------------------------------------------------

\* Every layout of an archive file into at most MaxBlocks non-empty blocks.
Layouts == UNION {[1..n -> 1..MaxBlockLen] : n \in 0..MaxBlocks}

\* The decompressed length of block k; past the last block, the end-of-file
\* marker: an empty buffer.
BlockLen(k) == IF k \in 1..Len(blocks) THEN blocks[k] ELSE 0

\* The decompressed offset at which block k starts.
RECURSIVE BlockStart(_)
BlockStart(k) == IF k <= 1 THEN 0 ELSE BlockStart(k - 1) + BlockLen(k - 1)

\* The length of the decompressed stream.
StreamLen == BlockStart(Len(blocks) + 1)

\* The decompressed offset the reader is at.
ReaderPos(r) == BlockStart(r.block) + r.within

\* BgzfReader(path): the first block loaded, nothing read.
ReaderOpen == [block |-> 1, within |-> 0]

\* BgzfReader.tell: the coordinate (virtual offset) <<block, within>>; at
\* the end of a non-empty block, the start of the next block.
ReaderTell(r) ==
    IF 0 < r.within /\ r.within = BlockLen(r.block)
    THEN <<r.block + 1, 0>>
    ELSE <<r.block, r.within>>

\* BgzfReader.seek(coordinate): load the block, go to the offset in it.
ReaderSeek(c) == [block |-> c[1], within |-> c[2]]

\* Coordinates compare as virtual offsets do: by block, then within it.
CoordLeq(c, d) == c[1] < d[1] \/ (c[1] = d[1] /\ c[2] <= d[2])

\* The coordinates tell() can return on this archive.
Coordinates ==
    {c \in (1..Len(blocks)) \X (0..MaxBlockLen) : c[2] < BlockLen(c[1])}
        \cup {<<Len(blocks) + 1, 0>>}

\* The reader after it produced n > 0 bytes (n at most what is left): the
\* next block is loaded only when the loaded one does not hold all n.
RECURSIVE ReaderAdvance(_, _)
ReaderAdvance(r, n) ==
    IF r.within + n <= BlockLen(r.block) THEN [r EXCEPT !.within = @ + n]
    ELSE IF r.block > Len(blocks) THEN r
    ELSE ReaderAdvance([block |-> r.block + 1, within |-> 0],
                       n - (BlockLen(r.block) - r.within))

\* The numbers of bytes BgzfReader.read(size) may return: all that is asked
\* for or all that is left; a reader with short reads any number from 1 up
\* to that; 0 only at the end of the stream (or for size 0).
ReadCounts(r, size) ==
    LET most == IF size <= StreamLen - ReaderPos(r)
                THEN size ELSE StreamLen - ReaderPos(r)
    IN IF most = 0 THEN {0}
       ELSE IF shortReads THEN 1..most
       ELSE {most}

\* The reader after read(size) returned `got` bytes: a read that finds the
\* loaded block exhausted loads the next one, also at the end of the file.
ReaderAfterRead(r, size, got) ==
    IF size = 0 THEN r
    ELSE IF got = 0 THEN ReaderAdvance(r, 1)
    ELSE ReaderAdvance(r, got)

\* ------------------------------------------------------------------------
\* BgzfWrapper
\* ------------------------------------------------------------------------

SEEK_SET == 0
SEEK_CUR == 1
SEEK_END == 2

Whences == {SEEK_SET, SEEK_CUR, SEEK_END}

\* The AssertionError of assert(whence != os.SEEK_END).
UnsupportedOperation == "AssertionError: whence != os.SEEK_END"
\* The AssertionError of assert(distance >= 0).
InvalidSeek == "AssertionError: distance >= 0"

\* BgzfWrapper.__init__
BgzfWrapper(r, initial) == [reader |-> r, offset |-> initial]

\* Mutant of read: the offset advances by the size asked for.
read_counting_size(w, size) ==
    {[reader |-> ReaderAfterRead(w.reader, size, got),
      offset |-> w.offset + size,
      len |-> got] : got \in ReadCounts(w.reader, size)}

\* BgzfWrapper.read(size): the wrapper after the call and the number of
\* bytes returned, for every number the reader may return.
read(w, size) ==
    {[reader |-> ReaderAfterRead(w.reader, size, got),
      offset |-> w.offset + got,
      len |-> got] : got \in ReadCounts(w.reader, size)}

\* BgzfWrapper.tell
tell(w) == w.offset

\* Mutant of seek_distance: an absolute target is taken as a distance.
seek_distance_relative(off, whence, cur) == off

\* The distance BgzfWrapper.seek computes.
seek_distance(off, whence, cur) ==
    IF whence = SEEK_SET THEN off - cur ELSE off

\* Mutant of seek_asserts: the distance is checked before the origin.
seek_asserts_swapped(whence, distance) ==
    IF distance < 0 THEN InvalidSeek
    ELSE IF whence = SEEK_END THEN UnsupportedOperation
    ELSE "ok"

\* The two assertions of BgzfWrapper.seek, in order.
seek_asserts(whence, distance) ==
    IF whence = SEEK_END THEN UnsupportedOperation
    ELSE IF distance < 0 THEN InvalidSeek
    ELSE "ok"

\* Mutant of seek_hit_eof: a read shorter than asked for is taken as EOF.
seek_hit_eof_when_short(dist_read, asked) == dist_read < asked

\* if dist_read == 0: break (asked is what the read was asked for)
seek_hit_eof(dist_read, asked) == dist_read = 0

\* One pass of the loop of BgzfWrapper.seek from [w, distance]: the read,
\* the new distance, and whether the loop is left.
seek_pass(s) ==
    {[w |-> BgzfWrapper(x.reader, x.offset),
      distance |-> s.distance - x.len,
      left |-> seek_hit_eof(x.len, s.distance) \/ ~(s.distance - x.len > 0)]
        : x \in read(s.w, s.distance)}

\* The loop of BgzfWrapper.seek continued from every [w, distance] of
\* `looping`: the wrappers it may end with, `ended` being those it already
\* ended with.
RECURSIVE seek_loop_from(_, _)
seek_loop_from(looping, ended) ==
    IF looping = {} THEN ended
    ELSE LET passed == UNION {seek_pass(s) : s \in looping}
         IN seek_loop_from(
                {[w |-> t.w, distance |-> t.distance] : t \in {u \in passed : ~u.left}},
                ended \cup {t.w : t \in {u \in passed : u.left}})

\* The loop of BgzfWrapper.seek: the wrappers it may end with.
seek_loop(w, distance) ==
    IF distance > 0
    THEN seek_loop_from({[w |-> w, distance |-> distance]}, {})
    ELSE {w}

\* BgzfWrapper.seek(off, whence): the outcomes it may end with.
seek(w, off, whence) ==
    LET distance == seek_distance(off, whence, w.offset)
        status == seek_asserts(whence, distance)
    IN IF status # "ok"
       THEN {[status |-> status, reader |-> w.reader, offset |-> w.offset]}
       ELSE {[status |-> "ok", reader |-> x.reader, offset |-> x.offset]
                : x \in seek_loop(w, distance)}

\* ------------------------------------------------------------------------
\* The archive and the archive-format parser (tarfile.TarFile)
\* ------------------------------------------------------------------------

\* The member names the parser reports in the modelled archives: files "a"
\* and "aa", a file "a/a" in a directory that is no member itself, and "/a",
\* a member stored with its absolute name.
MemberNames ==
    {<<"a">>, <<"a", "a">>, <<"a", Slash, "a">>, <<Slash, "a">>}

\* A member: its name and the size of its payload.
Members == [name : MemberNames, size : 0..MaxSize]

\* The archives: at most MaxMembers members with distinct names, followed
\* by the end-of-archive marker of two zero blocks, or by nothing; the last
\* `cut` bytes of the file are missing (a truncated archive).
Archives ==
    {a \in [members : UNION {[1..n -> Members] : n \in 0..MaxMembers}, trailer : {0, 2},
            cut : 0..MaxCut] :
        \A i, j \in 1..Len(a.members) :
            a.members[i].name = a.members[j].name => i = j}

\* size rounded up to whole blocks (TarInfo._block).
Block(size) == ((size + TarBlock - 1) \div TarBlock) * TarBlock

\* The bytes of member m: its header block, its payload, the padding.
MemberCells(a, m) ==
    [j \in 1..TarBlock |-> <<"hdr", m, j>>]
        \o [j \in 1..a.members[m].size |-> <<"dat", m, j>>]
        \o [j \in 1..(Block(a.members[m].size) - a.members[m].size) |-> <<"pad", m, j>>]

RECURSIVE MembersCells(_, _)
MembersCells(a, m) ==
    IF m > Len(a.members) THEN <<>>
    ELSE MemberCells(a, m) \o MembersCells(a, m + 1)

\* The decompressed stream of the archive before its truncation.
WholeStream(a) ==
    MembersCells(a, 1) \o [j \in 1..(a.trailer * TarBlock) |-> <<"zero", 0, j>>]

\* The decompressed stream of the archive.
StreamOf(a) == SubSeq(WholeStream(a), 1, Len(WholeStream(a)) - a.cut)

Stream == StreamOf(archive)

\* The payload of member m: its bytes in the archive.
Payload(a, m) ==
    SelectSeq([j \in 1..a.members[m].size |-> <<"dat", m, j>>],
              LAMBDA c : \E k \in 1..Len(StreamOf(a)) : StreamOf(a)[k] = c)

\* The block layouts of the compressed archives.
ArchiveLayouts == UNION {[1..n -> 1..MaxBlockLen] : n \in 0..MaxArchiveBlocks}

\* The sum of the block lengths of a layout.
RECURSIVE LayoutLen(_)
LayoutLen(l) == IF l = <<>> THEN 0 ELSE Head(l) + LayoutLen(Tail(l))

\* The bytes a read of `len` bytes returns to a reader at position pos.
CellsAt(pos, len) == SubSeq(Stream, pos + 1, pos + len)

\* What tarfile makes of a header block.
EmptyHeaderError == "EmptyHeaderError"
TruncatedHeaderError == "TruncatedHeaderError"
EOFHeaderError == "EOFHeaderError"
InvalidHeaderError == "InvalidHeaderError"
ReadError == "ReadError"

\* TarInfo.frombuf: the member whose header the block is, or the error.
HeaderOf(buf) ==
    IF Len(buf) = 0 THEN Raised(EmptyHeaderError)
    ELSE IF Len(buf) # TarBlock THEN Raised(TruncatedHeaderError)
    ELSE IF \A j \in 1..TarBlock : buf[j][1] = "zero" THEN Raised(EOFHeaderError)
    ELSE IF buf[1][1] = "hdr" /\ \A j \in 1..TarBlock : buf[j] = <<"hdr", buf[1][2], j>>
         THEN Ok(buf[1][2])
    ELSE Raised(InvalidHeaderError)

NoFile == [kind |-> "NoFile"]

\* The outcome of TarFile.next once the seek has left the wrapper w1 and the
\* read of the header block has returned rd.
TarRead(t, w1, rd) ==
    LET w2 == BgzfWrapper(rd.reader, rd.offset)
        hdr == HeaderOf(CellsAt(ReaderPos(w1.reader), rd.len))
    IN IF hdr.status = "ok"
       THEN [status |-> "ok",
             info |-> [member |-> hdr.value,
                       name |-> archive.members[hdr.value].name,
                       size |-> archive.members[hdr.value].size,
                       offset |-> rd.offset - TarBlock,
                       offset_data |-> rd.offset],
             tar |-> [t EXCEPT !.offset = rd.offset + Block(archive.members[hdr.value].size)],
             w |-> w2]
       ELSE IF hdr.status # EOFHeaderError /\ t.offset = 0
       THEN [status |-> ReadError, info |-> None, tar |-> t, w |-> w2]
       ELSE [status |-> "ok", info |-> None, tar |-> [t EXCEPT !.loaded = TRUE], w |-> w2]

\* TarFile.next past firstmember: seek to self.offset, read a header block,
\* make the TarInfo and move self.offset behind the member; None at the end
\* of the archive or at a block that is no header; ReadError when the first
\* block of the archive is no header. The set of the possible outcomes.
TarNext(t, w) ==
    UNION {IF sk.status # "ok"
           THEN {[status |-> sk.status, info |-> None, tar |-> t, w |-> w]}
           ELSE {TarRead(t, BgzfWrapper(sk.reader, sk.offset), rd) :
                    rd \in read(BgzfWrapper(sk.reader, sk.offset), TarBlock)} :
           sk \in seek(w, t.offset, SEEK_SET)}

\* tarfile.TarFile(fileobj=w): self.offset = fileobj.tell(), and the first
\* member is read at once.
TarOpen(w) ==
    {[first EXCEPT !.tar.firstmember = first.info, !.info = None] :
        first \in TarNext([offset |-> tell(w), firstmember |-> None, loaded |-> FALSE], w)}

\* One step of `for info in archive_tar` (TarIter.next): the first member
\* read by the constructor, then TarFile.next until it returns None.
TarIterNext(t, w) ==
    IF t.loaded THEN {[status |-> "ok", info |-> None, tar |-> t, w |-> w]}
    ELSE IF t.firstmember # None
    THEN {[status |-> "ok", info |-> t.firstmember,
           tar |-> [t EXCEPT !.firstmember = None], w |-> w]}
    ELSE TarNext(t, w)

NoTar == [offset |-> 0, firstmember |-> None, loaded |-> FALSE]

NoBuild == [kind |-> "NoBuild"]

NoExtract ==
    [op |-> "none", path |-> <<>>, status |-> "ok", opened |-> FALSE,
     coordinate |-> <<1, 0>>, member |-> 0, data |-> <<>>, listing |-> {}]

IdleBuild ==
    /\ archive = [members |-> <<>>, trailer |-> 0, cut |-> 0]
    /\ pc = "idle"
    /\ tar = NoTar
    /\ bgzf_offset = <<1, 0>>
    /\ tar_offset = 0
    /\ entries = <<>>
    /\ parsed = <<>>
    /\ previous = NoBuild
    /\ index_file = NoFile
    /\ error = "none"
    /\ xcall = NoExtract

\* ------------------------------------------------------------------------
\* The wrapper on its own: read and seek calls in any order
\* ------------------------------------------------------------------------

NoAdapterCall ==
    [op |-> "none", arg |-> 0, whence |-> SEEK_SET, status |-> "ok", len |-> 0,
     offset0 |-> 0, reader0 |-> ReaderOpen]

\* Idle values of the variables a specification does not use.
IdleTree == index = NewIndex /\ inserted = <<>> /\ call = NoCall

IdleAdapter ==
    /\ blocks = <<>>
    /\ shortReads = FALSE
    /\ reader = ReaderOpen
    /\ offset = 0
    /\ initial_offset = 0
    /\ produced = 0
    /\ acall = NoAdapterCall

\* A wrapper around a reader with short reads that was sent to some coordinate of the
\* archive (as the extractor does; the index build starts at <<1, 0>>).
InitAdapter ==
    /\ IdleTree
    /\ IdleBuild
    /\ blocks \in Layouts
    /\ shortReads = TRUE
    /\ \E c \in Coordinates : reader = ReaderSeek(c)
    /\ initial_offset \in 0..MaxInitialOffset
    /\ offset = initial_offset
    /\ produced = 0
    /\ acall = NoAdapterCall

\* archive_wrapper.read(size)
ReadCall(size) ==
    /\ acall.op = "none"
    /\ \E x \in read(BgzfWrapper(reader, offset), size) :
           /\ reader' = x.reader
           /\ offset' = x.offset
           /\ produced' = produced + (ReaderPos(x.reader) - ReaderPos(reader))
           /\ acall' = [op |-> "read", arg |-> size, whence |-> SEEK_SET,
                        status |-> "ok", len |-> x.len,
                        offset0 |-> offset, reader0 |-> reader]
           /\ UNCHANGED <<blocks, shortReads, initial_offset>>
           /\ UNCHANGED treeVars
    /\ UNCHANGED buildVars
           /\ UNCHANGED buildVars
        /\ UNCHANGED buildVars

\* archive_wrapper.seek(off, whence)
SeekCall(off, whence) ==
    /\ acall.op = "none"
    /\ \E x \in seek(BgzfWrapper(reader, offset), off, whence) :
           /\ reader' = x.reader
           /\ offset' = x.offset
           /\ produced' = produced + (ReaderPos(x.reader) - ReaderPos(reader))
           /\ acall' = [op |-> "seek", arg |-> off, whence |-> whence,
                        status |-> x.status, len |-> 0,
                        offset0 |-> offset, reader0 |-> reader]
           /\ UNCHANGED <<blocks, shortReads, initial_offset>>
           /\ UNCHANGED treeVars
    /\ UNCHANGED buildVars
           /\ UNCHANGED buildVars
        /\ UNCHANGED buildVars

\* The caller takes the outcome of the call (a result or an exception it
\* handles) and may call again.
AdapterReturn ==
    /\ acall.op # "none"
    /\ acall' = NoAdapterCall
    /\ UNCHANGED <<blocks, shortReads, reader, offset, initial_offset, produced>>
    /\ UNCHANGED treeVars
    /\ UNCHANGED buildVars

\* The offsets handed to seek: from behind the start to past the end.
SeekOffsets == (0 - 1)..(StreamLen + initial_offset + 1)

NextAdapter ==
    \/ \E size \in 0..MaxRead : ReadCall(size)
    \/ \E off \in SeekOffsets, whence \in Whences : SeekCall(off, whence)
    \/ AdapterReturn

SpecAdapter == InitAdapter /\ [][NextAdapter]_vars

\* ------------------------------------------------------------------------
\* What the specification says of a seek, stated on the last call
\* ------------------------------------------------------------------------

\* distance = target - current_offset (absolute) or target (relative)
CalledDistance ==
    IF acall.whence = SEEK_SET THEN acall.arg - acall.offset0 ELSE acall.arg

\* tell() at the end of the stream, seen from the state before the call.
EndOfStreamOffset == acall.offset0 + (StreamLen - ReaderPos(acall.reader0))

Min(a, b) == IF a <= b THEN a ELSE b

\* The call changed neither the wrapper's offset nor the reader.
CallReadNothing == offset = acall.offset0 /\ reader = acall.reader0

\* ------------------------------------------------------------------------
\* C3 no backward seek
\* ------------------------------------------------------------------------

\* C3: seek with a negative distance (an absolute target behind the current
\* offset, or a negative relative offset) fails with InvalidSeek, and the
\* failed call reads nothing: offset and reader are as before.
BackwardSeekFails ==
    (acall.op = "seek" /\ acall.whence \in {SEEK_SET, SEEK_CUR} /\ CalledDistance < 0)
        => (acall.status = InvalidSeek /\ CallReadNothing)

\* An absolute seek to an offset >= 0 behind the current one, after the
\* wrapper has moved on from where it started.
BackwardSeekFailsWitness ==
    /\ acall.op = "seek"
    /\ acall.whence = SEEK_SET
    /\ acall.arg >= 0
    /\ acall.arg < acall.offset0
    /\ produced > 0
    /\ acall.status = InvalidSeek

\* ------------------------------------------------------------------------
\* C4 forward seek
\* ------------------------------------------------------------------------

\* C4: seek with a distance d >= 0 (absolute or relative) ends without
\* raising, also when the reader returns fewer bytes than asked for, and
\* leaves tell() = min(offset before + d, offset of the end of the stream);
\* and every seek call has an outcome (its loop ends).
ForwardSeekReachesTarget ==
    /\ (acall.op = "seek" /\ acall.whence \in {SEEK_SET, SEEK_CUR} /\ CalledDistance >= 0)
           => /\ acall.status = "ok"
              /\ tell(BgzfWrapper(reader, offset))
                     = Min(acall.offset0 + CalledDistance, EndOfStreamOffset)
    /\ acall.op = "none" =>
           \A off \in SeekOffsets, whence \in Whences :
               seek(BgzfWrapper(reader, offset), off, whence) # {}

\* A seek past the end of the stream that read across a block boundary and
\* stopped at the end, short of its target.
ForwardSeekReachesTargetWitness ==
    /\ acall.op = "seek"
    /\ acall.status = "ok"
    /\ shortReads
    /\ CalledDistance > 0
    /\ offset > acall.offset0 + 1
    /\ offset < acall.offset0 + CalledDistance
    /\ reader.block > acall.reader0.block + 1

\* ------------------------------------------------------------------------
\* C5 no seek from the end
\* ------------------------------------------------------------------------

\* C5: seek with origin=end fails with UnsupportedOperation for every
\* offset value, and reads nothing: offset and reader are as before.
SeekFromEndFails ==
    (acall.op = "seek" /\ acall.whence = SEEK_END)
        => (acall.status = UnsupportedOperation /\ CallReadNothing)

\* A seek from the end with a negative offset, with bytes left to read.
SeekFromEndFailsWitness ==
    /\ acall.op = "seek"
    /\ acall.whence = SEEK_END
    /\ acall.arg < 0
    /\ ReaderPos(reader) < StreamLen
    /\ acall.status = UnsupportedOperation

\* ------------------------------------------------------------------------
\* C6 tell
\* ------------------------------------------------------------------------

\* C6: after any sequence of read and seek calls, failed ones included,
\* tell() is the initial offset plus the number of bytes the reader has
\* produced since the wrapper was made; tell() never decreases, and a read
\* at the end of the stream leaves it as it was.
TellCountsProducedBytes ==
    /\ tell(BgzfWrapper(reader, offset)) = initial_offset + produced
    /\ offset >= acall.offset0
    /\ (acall.op = "read" /\ ReaderPos(acall.reader0) = StreamLen)
           => (acall.len = 0 /\ offset = acall.offset0)

\* A read that returned fewer bytes than asked for, before the end of the
\* stream, on a wrapper made with a non-zero initial offset that had
\* already produced bytes.
TellCountsProducedBytesWitness ==
    /\ acall.op = "read"
    /\ acall.len > 0
    /\ acall.len < acall.arg
    /\ ReaderPos(reader) < StreamLen
    /\ produced > acall.len
    /\ initial_offset > 0

\* ------------------------------------------------------------------------
\* The index tree on its own: insert, get and readdir calls in any order
\* ------------------------------------------------------------------------

\* The entry of the k-th insert call of a run: a fresh IndexEntry object.
TestEntry(k) == IndexEntry(<<k, 0>>, k, k, <<k + 1, 0>>)

InitTree ==
    /\ index = NewIndex
    /\ inserted = <<>>
    /\ call = NoCall
    /\ IdleAdapter
    /\ IdleBuild

\* index.insert(p, entry) with a fresh entry.
InsertCall(p) ==
    /\ call.op = "none"
    /\ Len(inserted) < MaxInserts
    /\ LET entry == TestEntry(Len(inserted) + 1)
           r == insert(index, p, entry)
       IN /\ index' = IF r.status = "ok" THEN r.value ELSE index
          /\ inserted' = IF r.status = "ok"
                         THEN Append(inserted, [path |-> p, entry |-> entry])
                         ELSE inserted
          /\ call' = [op |-> "insert", path |-> p,
                      ret |-> IF r.status = "ok" THEN Ok(None) ELSE r]
    /\ UNCHANGED adapterVars
    /\ UNCHANGED buildVars

\* index.get(p)
GetCall(p) ==
    /\ call.op = "none"
    /\ call' = [op |-> "get", path |-> p, ret |-> get(index, p)]
    /\ index' = lookup_tree(index, p)
    /\ UNCHANGED inserted
    /\ UNCHANGED adapterVars
    /\ UNCHANGED buildVars

\* index.readdir(p)
ReaddirCall(p) ==
    /\ call.op = "none"
    /\ call' = [op |-> "readdir", path |-> p, ret |-> readdir(index, p)]
    /\ index' = lookup_tree(index, p)
    /\ UNCHANGED inserted
    /\ UNCHANGED adapterVars
    /\ UNCHANGED buildVars

\* The caller takes the outcome of the call (a result or an exception it
\* handles) and may call again.
TreeReturn ==
    /\ call.op # "none"
    /\ call' = NoCall
    /\ UNCHANGED <<index, inserted>>
    /\ UNCHANGED adapterVars
    /\ UNCHANGED buildVars

NextTree ==
    \/ \E p \in Paths : InsertCall(p)
    \/ \E p \in Paths : GetCall(p)
    \/ \E p \in Paths : ReaddirCall(p)
    \/ TreeReturn

SpecTree == InitTree /\ [][NextTree]_vars

\* ------------------------------------------------------------------------
\* What the specification says of paths, stated without os.path.split
\* ------------------------------------------------------------------------

\* The non-empty '/'-delimited components of p from position i on, `cur`
\* being the component read so far.
RECURSIVE ComponentsFrom(_, _, _)
ComponentsFrom(p, i, cur) ==
    LET done == IF cur = <<>> THEN <<>> ELSE <<cur>>
    IN IF i > Len(p) THEN done
       ELSE IF p[i] = Slash THEN done \o ComponentsFrom(p, i + 1, <<>>)
       ELSE ComponentsFrom(p, i + 1, Append(cur, p[i]))

\* The component list of a path: its non-empty components, in order.
Components(p) == ComponentsFrom(p, 1, <<>>)

\* The components joined by single slashes: a path string naming them.
RECURSIVE JoinPath(_)
JoinPath(parts) ==
    IF parts = <<>> THEN <<>>
    ELSE IF Len(parts) = 1 THEN parts[1]
    ELSE parts[1] \o <<Slash>> \o JoinPath(Tail(parts))

IsPrefix(s, t) == Len(s) <= Len(t) /\ SubSeq(t, 1, Len(s)) = s

\* The indices of the completed inserts at the component list `parts`.
InsertsAt(parts) == {i \in 1..Len(inserted) : Components(inserted[i].path) = parts}

\* The entry most recently inserted at the component list, None when none was.
LastInsertedAt(parts) ==
    IF InsertsAt(parts) = {} THEN None
    ELSE inserted[CHOOSE i \in InsertsAt(parts) : \A j \in InsertsAt(parts) : j <= i].entry

\* A node exists at `parts`: some completed insert went to it or below it.
NodeExpected(parts) ==
    \E i \in 1..Len(inserted) : IsPrefix(parts, Components(inserted[i].path))

\* The names a listing of `parts` has to hold: the next component of every
\* inserted path below it.
ExpectedChildren(parts) ==
    {Components(inserted[i].path)[Len(parts) + 1] :
        i \in {j \in 1..Len(inserted) :
                 /\ IsPrefix(parts, Components(inserted[j].path))
                 /\ Len(Components(inserted[j].path)) > Len(parts)}}

\* The entries held by the nodes of the tree, one per node that has one.
RECURSIVE TreeEntrySeq(_)
TreeEntrySeq(node) ==
    LET RECURSIVE over(_)
        over(names) ==
            IF names = {} THEN <<>>
            ELSE LET n == CHOOSE x \in names : TRUE
                 IN TreeEntrySeq(node.children[n]) \o over(names \ {n})
    IN (IF node.entry = None THEN <<>> ELSE <<node.entry>>) \o over(DOMAIN node.children)

TreeEntries(node) == {TreeEntrySeq(node)[i] : i \in 1..Len(TreeEntrySeq(node))}

\* ------------------------------------------------------------------------
\* C7 Path uniqueness
\* ------------------------------------------------------------------------

\* C7: after insert(p, e1) followed, possibly with inserts at other paths in
\* between, by insert(p, e2): get(p) returns e2, no earlier entry inserted
\* at p is still held anywhere in the tree, and no entry is held by two
\* nodes.  Stated of the latest completed insert, and of every inserted
\* path for the entry most recently inserted at its component list.
PathUniqueness ==
    /\ Len(inserted) > 0 =>
         LET last == inserted[Len(inserted)]
         IN /\ get(index, last.path) = Ok(last.entry)
            /\ \A i \in 1..(Len(inserted) - 1) :
                   inserted[i].path = last.path =>
                       inserted[i].entry \notin TreeEntries(index)
    /\ \A i \in 1..Len(inserted) :
           get(index, inserted[i].path) =
               Ok(LastInsertedAt(Components(inserted[i].path)))
    /\ Cardinality(TreeEntries(index)) = Len(TreeEntrySeq(index))
    /\ (call.op = "get" /\ \E i \in 1..Len(inserted) : inserted[i].path = call.path)
           => call.ret = Ok(LastInsertedAt(Components(call.path)))

\* Two inserts at one path, other than the root's, then a get of that path.
PathUniquenessWitness ==
    /\ Len(inserted) >= 2
    /\ inserted[1].path = inserted[Len(inserted)].path
    /\ Len(Components(inserted[1].path)) >= 1
    /\ call.op = "get"
    /\ call.path = inserted[1].path
    /\ call.ret = Ok(inserted[Len(inserted)].entry)

\* ------------------------------------------------------------------------
\* C8 Directory listing completeness
\* ------------------------------------------------------------------------

\* C8: after any sequence of inserts, for every inserted path and every
\* proper prefix of its component list (the empty root prefix included),
\* readdir of that prefix succeeds and holds the component that follows.
ListingCompleteness ==
    /\ \A i \in 1..Len(inserted) :
           LET parts == Components(inserted[i].path)
           IN \A k \in 0..(Len(parts) - 1) :
                  LET r == readdir(index, JoinPath(SubSeq(parts, 1, k)))
                  IN r.status = "ok" /\ parts[k + 1] \in r.value
    /\ (call.op = "readdir" /\ NodeExpected(Components(call.path))
            /\ call.ret.status = "ok")
           => ExpectedChildren(Components(call.path)) \subseteq call.ret.value

\* Two inserted paths share a directory and differ below it, one of them
\* two components deep, and the shared directory was listed.
ListingCompletenessWitness ==
    /\ Len(inserted) >= 2
    /\ \E i \in 1..Len(inserted) : Len(Components(inserted[i].path)) = 2
    /\ call.op = "readdir"
    /\ call.ret.status = "ok"
    /\ Cardinality(call.ret.value) >= 2
    /\ Cardinality(ExpectedChildren(Components(call.path))) >= 2

\* ------------------------------------------------------------------------
\* C9 get
\* ------------------------------------------------------------------------

\* C9: get(path) never raises; it returns None when a component of the path
\* is absent from the tree or when the terminal node was only auto-created
\* as an ancestor, and otherwise the entry most recently inserted at that
\* path.
GetTotal ==
    call.op = "get" =>
        /\ call.ret.status = "ok"
        /\ call.ret.value = LastInsertedAt(Components(call.path))

\* ------------------------------------------------------------------------
\* C10 list_children
\* ------------------------------------------------------------------------

\* C10: readdir(path) fails with NotFound when a component of the path is
\* absent from the tree; otherwise it returns exactly the names of the
\* terminal node's children: the next component of every inserted path
\* below it, and no other name.
ReaddirTotal ==
    call.op = "readdir" =>
        IF NodeExpected(Components(call.path)) \/ Components(call.path) = <<>>
        THEN /\ call.ret.status = "ok"
             /\ call.ret.value = ExpectedChildren(Components(call.path))
        ELSE call.ret.status = NotFound

\* ------------------------------------------------------------------------
\* main --index and main --extract
\* ------------------------------------------------------------------------

\* An archive, compressed into any layout of at most MaxArchiveBlocks blocks, read
\* by a reader that returns all the bytes asked for (Bio.bgzf).
InitBuild ==
    /\ IdleTree
    /\ archive \in Archives
    /\ archive.cut <= Len(WholeStream(archive))
    /\ blocks \in {l \in ArchiveLayouts : LayoutLen(l) = Len(StreamOf(archive))}
    /\ shortReads = FALSE
    /\ reader = ReaderOpen
    /\ offset = 0
    /\ initial_offset = 0
    /\ produced = 0
    /\ acall = NoAdapterCall
    /\ pc = "start"
    /\ tar = NoTar
    /\ bgzf_offset = <<1, 0>>
    /\ tar_offset = 0
    /\ entries = <<>>
    /\ parsed = <<>>
    /\ previous = NoBuild
    /\ index_file = NoFile
    /\ error = "none"
    /\ xcall = NoExtract

\* Mutant of carried_offset: the coordinate is taken before the seek.
carried_offset_before_seek(before, after) == ReaderTell(before)

\* bgzf_offset = archive_bgzf.tell() at the end of an iteration: `before`
\* and `after` are the reader before and after the iteration's seek.
carried_offset(before, after) == ReaderTell(after)

\* Mutant of carried_tar_offset: the offset is taken before the seek.
carried_tar_offset_before_seek(before, after) == tell(before)

\* tar_offset = archive_wrapper.tell() at the end of an iteration: `before`
\* and `after` are the wrapper before and after the iteration's seek.
carried_tar_offset(before, after) == tell(after)

\* Mutant of open_archive: the reader an earlier run left is used again.
open_archive_reusing(left) == left

\* bgzf.BgzfReader(options.archive_path, "rb"): a reader of its own at the
\* start of the archive, wherever an earlier run left its reader.
open_archive(left) == ReaderOpen

\* main --index up to the loop: the index, the reader, the wrapper, the two
\* offsets, and the TarFile, whose constructor reads the first header.
BuildOpen ==
    /\ pc = "start"
    /\ \E archive_bgzf \in {open_archive(reader)} :
       \E opened \in TarOpen(BgzfWrapper(archive_bgzf, 0)) :
          /\ index' = NewIndex
          /\ bgzf_offset' = ReaderTell(archive_bgzf)
          /\ tar_offset' = tell(BgzfWrapper(archive_bgzf, 0))
          /\ reader' = opened.w.reader
          /\ offset' = opened.w.offset
          /\ tar' = opened.tar
          /\ pc' = IF opened.status = "ok" THEN "loop" ELSE "failed"
          /\ error' = IF opened.status = "ok" THEN "none" ELSE opened.status
    /\ UNCHANGED <<inserted, call, blocks, shortReads, initial_offset, produced, acall>>
    /\ UNCHANGED <<archive, entries, parsed, previous, index_file, xcall>>

\* The IndexEntry of the member info, made after the seek that left the
\* reader `after`.
build_entry(info, after) ==
    IndexEntry(bgzf_offset, tar_offset, info.size, ReaderTell(after))

\* Mutant of file_after_member: the index is dumped in every iteration.
file_after_member_dumping(file, idx) == idx

\* The index file after an iteration that leaves the index idx: the loop
\* body does not touch it, pickle.dump comes after the loop.
file_after_member(file, idx) == file

\* One iteration of the loop: the next member, the seek to the record that
\* follows it, its IndexEntry, the insert, the offsets of the next record.
BuildMember ==
    /\ pc = "loop"
    /\ \E it \in TarIterNext(tar, BgzfWrapper(reader, offset)) :
        /\ it.status = "ok"
        /\ it.info # None
        /\ \E sk \in seek(it.w, it.tar.offset, SEEK_SET) :
            /\ tar' = it.tar
            /\ parsed' = Append(parsed, it.info)
            /\ reader' = sk.reader
            /\ offset' = sk.offset
            /\ IF sk.status # "ok"
               THEN /\ pc' = "failed"
                    /\ error' = sk.status
                    /\ UNCHANGED <<index, entries, bgzf_offset, tar_offset, index_file>>
               ELSE \E ins \in {insert(index, it.info.name, build_entry(it.info, sk.reader))} :
                    /\ entries' = Append(entries, build_entry(it.info, sk.reader))
                    /\ IF ins.status # "ok"
                       THEN /\ pc' = "failed"
                            /\ error' = ins.status
                            /\ UNCHANGED <<index, bgzf_offset, tar_offset, index_file>>
                       ELSE /\ index' = ins.value
                            /\ bgzf_offset' = carried_offset(it.w.reader, sk.reader)
                            /\ tar_offset' = carried_tar_offset(it.w, BgzfWrapper(sk.reader, sk.offset))
                            /\ index_file' = file_after_member(index_file, ins.value)
                            /\ UNCHANGED <<pc, error>>
    /\ UNCHANGED <<inserted, call, blocks, shortReads, initial_offset, produced, acall>>
    /\ UNCHANGED <<archive, previous, xcall>>

\* The end of the loop (the parser reports no further member, or fails) and
\* the dump of the index to the index file.
BuildSave ==
    /\ pc = "loop"
    /\ \E it \in TarIterNext(tar, BgzfWrapper(reader, offset)) :
        /\ it.info = None
        /\ tar' = it.tar
        /\ reader' = it.w.reader
        /\ offset' = it.w.offset
        /\ index_file' = IF it.status = "ok" THEN index ELSE index_file
        /\ pc' = IF it.status = "ok" THEN "saved" ELSE "failed"
        /\ error' = IF it.status = "ok" THEN error ELSE it.status
    /\ UNCHANGED <<index, inserted, call, blocks, shortReads, initial_offset, produced, acall>>
    /\ UNCHANGED <<archive, bgzf_offset, tar_offset, entries, parsed, previous, xcall>>

IOError == "IOError"
AttributeError == "AttributeError"

\* Mutant of extract_not_found: the archive reader is opened before the
\* entry is looked at.
extract_not_found_after_open(path) ==
    [NoExtract EXCEPT !.op = "extract", !.path = path, !.status = NotFound,
                      !.opened = TRUE]

\* main --extract when index.get returns None: "not found", return 1.
extract_not_found(path) ==
    [NoExtract EXCEPT !.op = "extract", !.path = path, !.status = NotFound]

\* The outcome of main --extract once the TarFile is open on the wrapper.
extract_member(path, entry, opened) ==
    LET info == opened.tar.firstmember
    IN IF opened.status # "ok"
       THEN {[NoExtract EXCEPT !.op = "extract", !.path = path, !.opened = TRUE,
                               !.coordinate = entry.virtual_offset,
                               !.status = opened.status]}
       ELSE IF info = None
       THEN {[NoExtract EXCEPT !.op = "extract", !.path = path, !.opened = TRUE,
                               !.coordinate = entry.virtual_offset,
                               !.status = AttributeError]}
       ELSE {[op |-> "extract", path |-> path, status |-> "ok", opened |-> TRUE,
              coordinate |-> entry.virtual_offset,
              member |-> info.member,
              data |-> CellsAt(ReaderPos(opened.w.reader), rd.len),
              listing |-> {}] :
                rd \in read(opened.w, info.size)}

\* main --extract on the index file and the archive: the possible outcomes.
extract(file, path) ==
    IF file = NoFile
    THEN {[NoExtract EXCEPT !.op = "extract", !.path = path, !.status = IOError]}
    ELSE UNION {
        IF got.status # "ok"
        THEN {[NoExtract EXCEPT !.op = "extract", !.path = path, !.status = got.status]}
        ELSE IF got.value = None
        THEN {extract_not_found(path)}
        ELSE UNION {extract_member(path, got.value, opened) :
                opened \in TarOpen(BgzfWrapper(ReaderSeek(got.value.virtual_offset),
                                               got.value.real_offset))} :
        got \in {get(file, path)}}

\* A run of main --extract after main --index has ended. A run leaves the
\* archive and the index file as they are: xcall keeps the outcome of one
\* run, on any path, per behaviour.
ExtractCall(path) ==
    /\ pc \in {"saved", "failed"}
    /\ xcall.op = "none"
    /\ xcall' \in extract(index_file, path)
    /\ UNCHANGED <<index, inserted, call>>
    /\ UNCHANGED adapterVars
    /\ UNCHANGED <<archive, pc, tar, bgzf_offset, tar_offset, entries, parsed, previous,
                   index_file, error>>

\* The paths handed to main --extract: the member names and the root.
ExtractPaths == MemberNames \cup {<<>>}

\* os.path.join(a, b) (posixpath).
PathJoin(a, b) ==
    IF b # <<>> /\ b[1] = Slash THEN b
    ELSE IF a = <<>> \/ a[Len(a)] = Slash THEN a \o b
    ELSE a \o <<Slash>> \o b

\* Mutant of find_size: the size starts out as -1.
find_size_unset_negative(entry) == IF entry = None THEN 0 - 1 ELSE entry.size

\* The size main --find prints for a child: 0, or entry.size when the child
\* has an entry.
find_size(entry) == IF entry = None THEN 0 ELSE entry.size

\* The line main --find prints for the child basename, or the error.
find_line(file, path, basename) ==
    LET got == get(file, PathJoin(path, basename))
    IN IF got.status # "ok" THEN got
       ELSE Ok([full_name |-> PathJoin(path, basename), size |-> find_size(got.value)])

\* main --find on the index file: the lines printed, or the error.
find(file, path) ==
    IF file = NoFile
    THEN [NoExtract EXCEPT !.op = "find", !.path = path, !.status = IOError]
    ELSE
    LET names == readdir(file, path)
        lines == {find_line(file, path, basename) : basename \in names.value}
    IN IF names.status # "ok"
       THEN [NoExtract EXCEPT !.op = "find", !.path = path, !.status = names.status]
       ELSE IF \E l \in lines : l.status # "ok"
       THEN [NoExtract EXCEPT !.op = "find", !.path = path,
                              !.status = (CHOOSE l \in lines : l.status # "ok").status]
       ELSE [NoExtract EXCEPT !.op = "find", !.path = path,
                              !.listing = {l.value : l \in lines}]

\* A run of main --find after main --index has ended, recorded in xcall
\* like a run of main --extract.
FindCall(path) ==
    /\ pc \in {"saved", "failed"}
    /\ xcall.op = "none"
    /\ xcall' = find(index_file, path)
    /\ UNCHANGED <<index, inserted, call>>
    /\ UNCHANGED adapterVars
    /\ UNCHANGED <<archive, pc, tar, bgzf_offset, tar_offset, entries, parsed, previous,
                   index_file, error>>

\* The paths handed to main --find: those of --extract, and a directory
\* named with a trailing slash.
FindPaths == ExtractPaths \cup {<<"a", Slash>>}

NextBuild ==
    \/ BuildOpen
    \/ BuildMember
    \/ BuildSave
    \/ \E path \in ExtractPaths : ExtractCall(path)
    \/ \E path \in FindPaths : FindCall(path)

SpecBuild == InitBuild /\ [][NextBuild]_vars

\* main --index is run once more on the same archive: a new process, which
\* finds the archive and the index file as the first run left them. What
\* the first run made is kept in `previous`.
Rebuild ==
    /\ pc \in {"saved", "failed"}
    /\ previous = NoBuild
    /\ previous' = [kind |-> "Build", pc |-> pc, error |-> error, index |-> index,
                    index_file |-> index_file, entries |-> entries]
    /\ pc' = "start"
    /\ entries' = <<>>
    /\ parsed' = <<>>
    /\ UNCHANGED <<index, inserted, call>>
    /\ UNCHANGED adapterVars
    /\ UNCHANGED <<archive, tar, bgzf_offset, tar_offset, index_file, error, xcall>>

NextRebuild ==
    \/ BuildOpen
    \/ BuildMember
    \/ BuildSave
    \/ Rebuild

SpecRebuild == InitBuild /\ [][NextRebuild]_vars

\* ------------------------------------------------------------------------
\* C2 Coordinate monotonicity and chaining
\* ------------------------------------------------------------------------

\* The coordinate c0 of the reader before the TarFile is opened.
InitialCoordinate == ReaderTell(ReaderOpen)

\* C2: for the entries made by the build, in build order: the coordinate of
\* the next record is not before the entry's own start coordinate, every
\* entry starts at the coordinate its predecessor gives for the next
\* record, and the first entry starts at the coordinate c0 the reader had
\* before the archive parser was opened.
CoordinateChaining ==
    /\ \A i \in 1..Len(entries) :
          CoordLeq(entries[i].virtual_offset, entries[i].next_virtual_offset)
    /\ \A i \in 1..(Len(entries) - 1) :
          entries[i + 1].virtual_offset = entries[i].next_virtual_offset
    /\ Len(entries) > 0 => entries[1].virtual_offset = InitialCoordinate

\* The build has made two entries, the second of which starts inside a
\* block, strictly after the first.
CoordinateChainingWitness ==
    /\ Len(entries) = 2
    /\ entries[2].virtual_offset[2] > 0
    /\ entries[1].virtual_offset # entries[2].virtual_offset
    /\ pc = "saved"

\* ------------------------------------------------------------------------
\* C1 Round trip
\* ------------------------------------------------------------------------

\* The member of the archive with the given name, 0 when there is none.
MemberNamed(path) ==
    IF \E m \in 1..Len(archive.members) : archive.members[m].name = path
    THEN CHOOSE m \in 1..Len(archive.members) : archive.members[m].name = path
    ELSE 0

\* Member m is present in the archive: its header and its payload are, also
\* when the end of the archive is missing.
MemberPresent(m) ==
    \A j \in 1..Len(WholeStream(archive)) :
        (WholeStream(archive)[j][2] = m /\ WholeStream(archive)[j][1] \in {"hdr", "dat"})
            => j <= Len(Stream)

\* C1: after the index build, the extraction for the path of a member m of
\* the archive moves the reader to the start coordinate stored for m, has m
\* as the first member the parser reads there, and yields the payload of m.
RoundTrip ==
    (/\ xcall.op = "extract"
     /\ MemberNamed(xcall.path) # 0
     /\ MemberPresent(MemberNamed(xcall.path))) =>
        /\ xcall.status = "ok"
        /\ xcall.opened
        /\ MemberNamed(xcall.path) <= Len(entries)
        /\ xcall.coordinate = entries[MemberNamed(xcall.path)].virtual_offset
        /\ xcall.member = MemberNamed(xcall.path)
        /\ xcall.data = Payload(archive, MemberNamed(xcall.path))

\* ------------------------------------------------------------------------
\* C11 Path splitting
\* ------------------------------------------------------------------------

\* C11: for every path handed to insert, get or readdir, atomize_path
\* terminates and yields the non-empty '/'-delimited components of the path
\* in order, so that paths with the same non-empty components (whatever
\* their leading, trailing or doubled slashes) name the same node, and ""
\* and "/" both name the root.
PathSplitting ==
    call.op # "none" =>
        /\ atomize_path(call.path) = Ok(Components(call.path))
        /\ \A q \in Paths :
              Components(q) = Components(call.path) =>
                  atomize_path(q) = atomize_path(call.path)

\* ------------------------------------------------------------------------
\* C12 list_directory
\* ------------------------------------------------------------------------

\* The children listed for the path of the last --find run.
ListedNames == readdir(index_file, xcall.path).value

\* The entry at the full path of the child basename.
ListedEntry(basename) == get(index_file, PathJoin(xcall.path, basename)).value

\* The listing has one line per child of the path, under its full path,
\* and `absent` is the size reported for a child without an entry.
ListingReports(absent) ==
    (xcall.op = "find" /\ xcall.status = "ok") =>
        xcall.listing =
            {[full_name |-> PathJoin(xcall.path, basename),
              size |-> IF ListedEntry(basename) = None THEN absent
                       ELSE ListedEntry(basename).size] : basename \in ListedNames}

NotFoundBeforeOpen ==
    (/\ xcall.op = "extract"
     /\ index_file # NoFile
     /\ get(index_file, xcall.path) = Ok(None)) =>
        /\ xcall.status = NotFound
        /\ ~xcall.opened
        /\ xcall.data = <<>>

\* An extraction for "a" from the index of an archive that holds "a/a" but
\* no member "a": the node exists, as an ancestor only.
NotFoundBeforeOpenWitness ==
    /\ xcall.op = "extract"
    /\ xcall.path = <<"a">>
    /\ xcall.status = NotFound
    /\ index_file # NoFile
    /\ has_child(index_file, <<"a">>)
    /\ MemberNamed(<<"a">>) = 0

\* ------------------------------------------------------------------------
\* C14 Build atomicity
\* ------------------------------------------------------------------------

\* C14: an index file exists only once the parser has reported the end of
\* the members, and it then holds the whole index; a build that ended with
\* an error has written no index file, complete or partial.
BuildAtomicity ==
    /\ index_file # NoFile =>
          /\ pc = "saved"
          /\ error = "none"
          /\ tar.loaded
          /\ index_file = index
    /\ pc = "failed" => (index_file = NoFile /\ error # "none")
    /\ pc = "saved" => index_file # NoFile

\* A build that failed at its second member: the index in memory holds the
\* first one, and no index file was written.
BuildAtomicityWitness ==
    /\ pc = "failed"
    /\ Len(entries) = 2
    /\ index # NewIndex
    /\ index_file = NoFile

\* ------------------------------------------------------------------------
\* C15 Decompressed offsets
\* ------------------------------------------------------------------------

\* C15: every entry made by the build has as real_offset the offset at
\* which the parser found the member's header and as size the member's
\* size, and real_offset does not decrease in build order.
OffsetsAgreeWithParser ==
    /\ Len(entries) = Len(parsed)
    /\ \A i \in 1..Len(entries) :
          /\ entries[i].real_offset = parsed[i].offset
          /\ entries[i].size = parsed[i].size
    /\ \A i \in 1..(Len(entries) - 1) :
          entries[i].real_offset <= entries[i + 1].real_offset

\* Two entries, the second being of a member whose end is missing from the
\* archive: the seek to the record after it stopped short at end-of-stream.
OffsetsAgreeWithParserWitness ==
    /\ Len(entries) = 2
    /\ entries[1].size > 0
    /\ tar.offset > StreamLen
    /\ offset = StreamLen
    /\ pc = "saved"

\* ------------------------------------------------------------------------
\* C16 Idempotence of the build
\* ------------------------------------------------------------------------

CoordinateAt(pos) ==
    CHOOSE c \in Coordinates : ReaderPos(ReaderSeek(c)) = Min(pos, StreamLen)

\* C17: a build whose parser has produced members ends with the index
\* saved, after exactly one insert per parsed member, in archive order:
\* the i-th entry was made for the i-th member after the seek to the record
\* that follows it, it is the entry the index holds at the member's name,
\* and the last entry's next coordinate is that of the archive trailer or
\* of end-of-stream.
OneInsertPerMember ==
    (pc \in {"saved", "failed"} /\ parsed # <<>>) =>
        /\ pc = "saved"
        /\ Len(entries) = Len(parsed)
        /\ \A i \in 1..Len(parsed) :
              /\ parsed[i].member = i
              /\ get(index, parsed[i].name) = Ok(entries[i])
              /\ entries[i].next_virtual_offset =
                    CoordinateAt(parsed[i].offset_data + Block(parsed[i].size))

\* ------------------------------------------------------------------------
\* C18 Lookups are read-only
\* ------------------------------------------------------------------------

InsertFrame ==
    [][(call.op = "none" /\ call'.op = "insert") =>
          \A q \in Paths :
              /\ Components(q) # Components(call'.path) =>
                    get(index', q) = get(index, q)
              /\ readdir(index, q).status = "ok" =>
                    /\ readdir(index', q).status = "ok"
                    /\ readdir(index, q).value \subseteq readdir(index', q).value]_vars

\* An insert at a path that is an ancestor of an earlier insert's path: the
\* node was there, auto-created, with a child.
InsertFrameWitness ==
    /\ call.op = "insert"
    /\ call.ret.status = "ok"
    /\ Len(inserted) = 2
    /\ Components(inserted[2].path) # Components(inserted[1].path)
    /\ Components(inserted[2].path) # <<>>
    /\ IsPrefix(Components(inserted[2].path), Components(inserted[1].path))

====
